---- MODULE Spec2Model ----
(***************************************************************************)
(* A model of ConnSailLib (conn.hh, main.cc): the shape checks, the        *)
(* coordinate conversions, the geodesic functions and the track            *)
(* generators.                                                             *)
(*                                                                         *)
(* double is modelled as fixed point: the integer v stands for the real    *)
(* v / Scale.  Every arithmetic operator rounds its result to the nearest  *)
(* multiple of 1 / Scale, symmetrically about zero, as an IEEE operation   *)
(* rounds to the nearest double.  Lengths of the geodesic functions are in *)
(* megametres (the code's metres / 10^6) so that the Earth's axes and      *)
(* their fourth powers fit the integers of the model checker.              *)
(***************************************************************************)
EXTENDS Integers, Sequences, FiniteSets, TLC

VARIABLES points, last, trace, res, out

vars == <<points, last, trace, res, out>>

(***************************************************************************)
(* Fixed-point arithmetic standing for double                              *)
(***************************************************************************)
Scale == 1000

Abs(a) == IF a < 0 THEN -a ELSE a

\* p / q for integers, rounded to nearest, ties away from zero (q > 0)
RoundDiv(p, q) == IF p >= 0 THEN (2 * p + q) \div (2 * q)
                            ELSE -((2 * (-p) + q) \div (2 * q))

\* a * b on doubles: the exact product rounded once.  The operands are split
\* at Scale so that no intermediate exceeds the product itself.
MulAbs(a, b) == (a \div Scale) * (b \div Scale) * Scale
                + (a \div Scale) * (b % Scale)
                + (a % Scale) * (b \div Scale)
                + RoundDiv((a % Scale) * (b % Scale), Scale)

\* the magnitude m with its sign
Signed(negative, m) == IF negative THEN -m ELSE m

Mul(a, b) == Signed((a < 0) # (b < 0), MulAbs(Abs(a), Abs(b)))

\* a / b on doubles (b # 0): the exact quotient rounded once
DivAbs(a, b) == (a \div b) * Scale + RoundDiv((a % b) * Scale, b)

Div(a, b) == Signed((a < 0) # (b < 0), DivAbs(Abs(a), Abs(b)))

\* an integer as a double
D(i) == i * Scale

\* the literal 0.5
half == Div(D(1), D(2))

\* floor of <cmath>: the greatest whole number not above a
floor(a) == (a \div Scale) * Scale

\* (int) a: conversion of a double to int truncates toward zero
IntCast(a) == IF a >= 0 THEN a \div Scale ELSE -((-a) \div Scale)

\* fmod of <cmath>: a - trunc(a / b) * b, with the sign of a (b > 0)
fmod(a, b) == IF a >= 0 THEN a % b ELSE -((-a) % b)

\* std::pow(a, 2)
pow2(a) == Mul(a, a)

\* The one value of double that is no number.  <cmath> returns it for the
\* square root of a negative number and for the arc sine of a number outside
\* [-1, 1]; every operation on it returns it, and it compares unequal to
\* every double, itself included.
NaN == -2147483647

RECURSIVE ISqrtIn(_, _, _)
ISqrtIn(x, lo, hi) ==
    IF lo >= hi THEN lo
    ELSE LET mid == (lo + hi + 1) \div 2
         IN  IF mid * mid <= x THEN ISqrtIn(x, mid, hi) ELSE ISqrtIn(x, lo, mid - 1)

\* the integer root r of x, rounded to nearest
RoundedRoot(x, r) == IF x - r * r > r THEN r + 1 ELSE r

\* sqrt of <cmath>: the root of a * Scale^2 in units of 1 / Scale
sqrt(a) == IF a < 0 THEN NaN ELSE RoundedRoot(a * Scale, ISqrtIn(a * Scale, 0, 46340))

(***************************************************************************)
(* <cmath> trigonometry.  The library reduces its argument by the true     *)
(* 2 Pi, whatever the constant conn::pi holds.                             *)
(***************************************************************************)
MathPi == RoundDiv(314159 * Scale, 100000)
MathTwoPi == RoundDiv(628319 * Scale, 100000)
MathHalfPi == RoundDiv(157080 * Scale, 100000)
MathQuarterPi == RoundDiv(78540 * Scale, 100000)

\* Taylor polynomials on [0, Pi/4], from the powers of t
SinTerms(t, t3, t5, t7) == t - RoundDiv(t3, 6) + RoundDiv(t5, 120) - RoundDiv(t7, 5040)
SinPoly5(t, t2, t3, t5) == SinTerms(t, t3, t5, Mul(t5, t2))
SinPoly3(t, t2, t3) == SinPoly5(t, t2, t3, Mul(t3, t2))
SinPoly2(t, t2) == SinPoly3(t, t2, Mul(t2, t))
SinPoly(t) == SinPoly2(t, Mul(t, t))

CosTerms(t2, t4, t6) == Scale - RoundDiv(t2, 2) + RoundDiv(t4, 24) - RoundDiv(t6, 720)
CosPoly4(t2, t4) == CosTerms(t2, t4, Mul(t4, t2))
CosPoly2(t2) == CosPoly4(t2, Mul(t2, t2))
CosPoly(t) == CosPoly2(Mul(t, t))

\* sin on [0, Pi/2]
SinQ(t) == IF t <= MathQuarterPi THEN SinPoly(t)
           ELSE CosPoly(IF t >= MathHalfPi THEN 0 ELSE MathHalfPi - t)

\* the angle of [0, Pi/2] whose sine has the magnitude of sin r, r in [0, 2 Pi)
FoldQ(r) == IF r <= MathHalfPi THEN r
            ELSE IF r <= MathPi THEN MathPi - r
            ELSE IF r <= MathPi + MathHalfPi THEN r - MathPi
            ELSE IF r >= MathTwoPi THEN 0 ELSE MathTwoPi - r

\* sin on [0, 2 Pi)
SinR(r) == Signed(r > MathPi, SinQ(FoldQ(r)))

\* sin is odd and cos even, as in <cmath>
sin(x) == Signed(x < 0, SinR(Abs(x) % MathTwoPi))
cos(x) == SinR((Abs(x) + MathHalfPi) % MathTwoPi)

\* atan on [0, 1], a minimax polynomial in z and z^2
AtanHorner(z, z2) ==
    Mul(z, RoundDiv(999866 * Scale, 1000000)
           + Mul(z2, RoundDiv(-330300 * Scale, 1000000)
                     + Mul(z2, RoundDiv(180141 * Scale, 1000000)
                               + Mul(z2, RoundDiv(-85133 * Scale, 1000000)
                                         + Mul(z2, RoundDiv(20835 * Scale, 1000000))))))
AtanPoly(z) == AtanHorner(z, Mul(z, z))

\* atan2 for y >= 0, x >= 0
AtanFold(below, a) == IF below THEN a ELSE MathHalfPi - a
AtanQ(y, x) == IF y = 0 THEN 0
               ELSE IF x = 0 THEN MathHalfPi
               ELSE AtanFold(y <= x, AtanPoly(IF y <= x THEN Div(y, x) ELSE Div(x, y)))

\* atan2 of <cmath>, in [-Pi, Pi], from the angle q of the magnitudes
AtanQuadrant(y, x, q) == Signed(y < 0, IF x >= 0 THEN q ELSE MathPi - q)
atan2(y, x) == AtanQuadrant(y, x, AtanQ(Abs(y), Abs(x)))

\* asin of <cmath>
asin(v) == IF Abs(v) > Scale THEN NaN ELSE atan2(v, sqrt(Scale - Mul(v, v)))

(***************************************************************************)
(* Library constants                                                       *)
(***************************************************************************)
\* the decimal digits of the literal 3.1415926535798932384626433
piDigits == <<3, 1, 4, 1, 5, 9, 2, 6, 5, 3, 5, 7, 9, 8, 9, 3, 2, 3, 8, 4, 6, 2, 6, 4, 3, 3>>

\* the double a decimal literal d.ddddd... denotes, from its six leading digits
RECURSIVE DigitsValue(_, _)
DigitsValue(ds, k) == IF k = 0 THEN 0 ELSE 10 * DigitsValue(ds, k - 1) + ds[k]

LiteralValue(ds) == RoundDiv(DigitsValue(ds, 6) * Scale, 100000)

pi == LiteralValue(piDigits)

\* 6371000 m, 6378137 m and 6356752.314245 m, in megametres
earthRadius == RoundDiv(6371 * Scale, 1000)
semiMajorEarthAxis == RoundDiv(637814 * Scale, 100000)
semiMinorEarthAxis == RoundDiv(635675 * Scale, 100000)

(***************************************************************************)
(* The outcome of a call: what it returned or threw, and the steps it took *)
(* in order ("point.size", "point[0]", "coordinate.size", "arith",         *)
(* "write"), and the lines it wrote to stdout.                             *)
(***************************************************************************)
Return(ev, v) == [threw |-> FALSE, exc |-> "", val |-> <<v>>, ev |-> ev, wrote |-> <<>>]
Done(ev) == [threw |-> FALSE, exc |-> "", val |-> <<>>, ev |-> ev, wrote |-> <<>>]
Throw(ev, msg) == [threw |-> TRUE, exc |-> msg, val |-> <<>>, ev |-> ev, wrote |-> <<>>]

\* the outcome r of a callee, after the caller's own steps ev
After(ev, r) == [r EXCEPT !.ev = ev \o r.ev]

(***************************************************************************)
(* Test functions                                                          *)
(***************************************************************************)
\* the check with the comparison 3 > coordinate.size()
failIfShorterThanAGPSCoordinate(coordinate) ==
    IF 3 > Len(coordinate)
    THEN Throw(<<"coordinate.size">>, "GPS coordinate should have 3 values.")
    ELSE Done(<<"coordinate.size">>)

failIfNotAGPSCoordinate(coordinate) ==
    IF 3 # Len(coordinate)
    THEN Throw(<<"coordinate.size">>, "GPS coordinate should have 3 values.")
    ELSE Done(<<"coordinate.size">>)

failIfNotAGPSPoint(point) ==
    IF 2 # Len(point)
    THEN Throw(<<"point.size">>, "GPS point should have 2 coordinates.")
    ELSE LET first == After(<<"point.size", "point[0]">>, failIfNotAGPSCoordinate(point[1]))
         IN  IF first.threw THEN first
             ELSE After(first.ev \o <<"point[1]">>, failIfNotAGPSCoordinate(point[2]))

(***************************************************************************)
(* Convert functions                                                       *)
(***************************************************************************)
radiansFromDegrees(degrees) == Div(Mul(degrees, pi), D(180))

degreesFromRadians(radians) ==
    IF radians = NaN THEN NaN ELSE Div(Mul(radians, D(180)), pi)

\* coordinate[0] + coordinate[1] / 60. + coordinate[2] / (60. * 60.)
DegreesOf(coordinate) ==
    coordinate[1] + Div(coordinate[2], D(60)) + Div(coordinate[3], Mul(D(60), D(60)))

degreesFromGPSCoordinate(coordinate) ==
    LET check == failIfNotAGPSCoordinate(coordinate)
    IN  IF check.threw THEN check
        ELSE Return(check.ev \o <<"arith">>, DegreesOf(coordinate))

radiansFromGPSCoordinate(coordinate) ==
    LET degrees == degreesFromGPSCoordinate(coordinate)
    IN  IF degrees.threw THEN degrees
        ELSE Return(degrees.ev \o <<"arith">>, radiansFromDegrees(degrees.val[1]))

degreesFromGPSPoint(point) ==
    LET check == failIfNotAGPSPoint(point)
    IN  IF check.threw THEN check
        ELSE LET latitude == degreesFromGPSCoordinate(point[1])
                 longitude == degreesFromGPSCoordinate(point[2])
             IN  IF latitude.threw THEN After(check.ev, latitude)
                 ELSE IF longitude.threw THEN After(check.ev \o latitude.ev, longitude)
                 ELSE Return(check.ev \o latitude.ev \o longitude.ev,
                             <<latitude.val[1], longitude.val[1]>>)

radiansFromGPSPoint(point) ==
    LET check == failIfNotAGPSPoint(point)
    IN  IF check.threw THEN check
        ELSE LET latitude == degreesFromGPSCoordinate(point[1])
                 longitude == degreesFromGPSCoordinate(point[2])
             IN  IF latitude.threw THEN After(check.ev, latitude)
                 ELSE IF longitude.threw THEN After(check.ev \o latitude.ev, longitude)
                 ELSE Return(check.ev \o latitude.ev \o <<"arith">>
                                 \o longitude.ev \o <<"arith">>,
                             <<radiansFromDegrees(latitude.val[1]),
                               radiansFromDegrees(longitude.val[1])>>)

gpsCoordinateFromDegrees(income) ==
    LET degrees == floor(income)
        minutes == floor(Mul(income - degrees, D(60)))
        seconds == floor(Mul(income - degrees - Div(minutes, D(60)), D(3600)))
    IN  IF income = NaN THEN <<NaN, NaN, NaN>> ELSE <<degrees, minutes, seconds>>

gpsCoordinateFromRadians(income) == gpsCoordinateFromDegrees(degreesFromRadians(income))

gpsPointFromDegrees(latitude, longitude) ==
    <<gpsCoordinateFromDegrees(latitude), gpsCoordinateFromDegrees(longitude)>>

gpsPointFromRadians(latitude, longitude) ==
    <<gpsCoordinateFromDegrees(latitude), gpsCoordinateFromDegrees(longitude)>>

\* std::to_string((int) x)
IntString(x) == ToString(IntCast(x))

stringFromGPSCoordinate(coordinate) ==
    LET check == failIfNotAGPSCoordinate(coordinate)
    IN  IF check.threw THEN check
        ELSE Return(check.ev,
                    IntString(coordinate[1]) \o "º " \o IntString(coordinate[2]) \o "' "
                        \o IntString(coordinate[3]) \o "\"")

stringFromGPSCoordinate2(coordinate, itIsLatitude) ==
    LET text == stringFromGPSCoordinate(coordinate)
    IN  IF text.threw THEN text
        ELSE Return(text.ev,
                    IF itIsLatitude
                    THEN IF coordinate[1] > 0 THEN text.val[1] \o " N" ELSE text.val[1] \o " S"
                    ELSE IF coordinate[1] > 0 THEN text.val[1] \o " E" ELSE text.val[1] \o " W")

stringFromGPSPoint(point) ==
    LET check == failIfNotAGPSPoint(point)
    IN  IF check.threw THEN check
        ELSE LET latitude == stringFromGPSCoordinate2(point[1], TRUE)
                 longitude == stringFromGPSCoordinate2(point[2], FALSE)
             IN  IF latitude.threw THEN After(check.ev, latitude)
                 ELSE IF longitude.threw THEN After(check.ev \o latitude.ev, longitude)
                 ELSE Return(check.ev \o latitude.ev \o longitude.ev,
                             latitude.val[1] \o " " \o longitude.val[1])

(***************************************************************************)
(* Interface functions: std::cout << text << std::endl writes the line     *)
(* once the text has been evaluated                                        *)
(***************************************************************************)
WriteLine(text) ==
    IF text.threw THEN text
    ELSE [Done(text.ev \o <<"write">>) EXCEPT !.wrote = <<text.val[1]>>]

printGPSCoordinate(coordinate) == WriteLine(stringFromGPSCoordinate(coordinate))

printGPSCoordinate2(coordinate, itIsLatitude) ==
    WriteLine(stringFromGPSCoordinate2(coordinate, itIsLatitude))

\* printGPSPoint with the line ended before the text is evaluated
printGPSPointEndingFirst(point) ==
    IF stringFromGPSPoint(point).threw
    THEN [stringFromGPSPoint(point) EXCEPT !.wrote = <<"">>]
    ELSE WriteLine(stringFromGPSPoint(point))

printGPSPoint(point) == WriteLine(stringFromGPSPoint(point))

(***************************************************************************)
(* Calculation functions                                                   *)
(***************************************************************************)
calculateEarthRadius(latitude) ==
    LET beta == radiansFromDegrees(latitude)
        a == semiMajorEarthAxis
        b == semiMinorEarthAxis
        A == pow2(Mul(a, cos(beta)))
        B == pow2(Mul(b, sin(beta)))
        radius == Div(Mul(pow2(a), A) + Mul(pow2(b), B), A + B)
    IN  sqrt(radius)

calculateEarthRadiusOfCoordinate(latitude) ==
    LET check == failIfNotAGPSCoordinate(latitude)
    IN  IF check.threw THEN check
        ELSE LET degrees == After(check.ev, degreesFromGPSCoordinate(latitude))
             IN  IF degrees.threw THEN degrees
                 ELSE Return(degrees.ev \o <<"arith">>, calculateEarthRadius(degrees.val[1]))

calculateEarthRadiusOfPoint(point) ==
    LET check == failIfNotAGPSPoint(point)
    IN  IF check.threw THEN check
        ELSE LET degrees == After(check.ev, degreesFromGPSCoordinate(point[1]))
             IN  IF degrees.threw THEN degrees
                 ELSE Return(degrees.ev \o <<"arith">>, calculateEarthRadius(degrees.val[1]))

distance(latitude1, longitude1, latitude2, longitude2, shouldCalculateEarthRadius) ==
    LET radius == IF shouldCalculateEarthRadius
                  THEN calculateEarthRadius(Mul(half, latitude1 + latitude2))
                  ELSE earthRadius
        lat1 == radiansFromDegrees(latitude1)
        lon1 == radiansFromDegrees(longitude1)
        lat2 == radiansFromDegrees(latitude2)
        lon2 == radiansFromDegrees(longitude2)
        deltaLatitude == lat2 - lat1
        deltaLongitude == lon2 - lon1
        a == pow2(sin(Mul(half, deltaLatitude)))
             + Mul(Mul(cos(lat1), cos(lat2)), pow2(sin(Mul(half, deltaLongitude))))
        b == Mul(D(2), atan2(sqrt(a), sqrt(D(1) - a)))
    IN  IF sqrt(a) = NaN \/ sqrt(D(1) - a) = NaN THEN NaN ELSE Mul(radius, b)

\* the overload on two GPS points: the call it makes passes four arguments,
\* so the fifth takes its default, false
distanceOfPoints(point1, point2, shouldCalculateEarthRadius) ==
    LET check1 == failIfNotAGPSPoint(point1)
        check2 == After(check1.ev, failIfNotAGPSPoint(point2))
    IN  IF check1.threw THEN check1
        ELSE IF check2.threw THEN check2
        ELSE Return(check2.ev \o <<"arith">>,
                    distance(DegreesOf(point1[1]), DegreesOf(point1[2]),
                             DegreesOf(point2[1]), DegreesOf(point2[2]), FALSE))

\* the normalisation that keeps 180 and moves -180: 180. - fmod(540. - degrees, 360.)
NormalizedLongitudeKeeping180(degrees) == D(180) - fmod(D(540) - degrees, D(360))

\* fmod(degrees + 540., 360.) - 180.
NormalizedLongitude(degrees) == fmod(degrees + D(540), D(360)) - D(180)

destination(latitude, longitude, dist, bearing, shouldCalculateEarthRadius) ==
    LET radius == IF shouldCalculateEarthRadius
                  THEN calculateEarthRadius(latitude)
                  ELSE earthRadius
        angularDistance == Div(dist, radius)
        bearingR == radiansFromDegrees(bearing)
        latitudeR == radiansFromDegrees(latitude)
        longitudeR == radiansFromDegrees(longitude)
        sin1 == sin(latitudeR)
        cos1 == cos(latitudeR)
        sin2 == sin(angularDistance)
        cos2 == cos(angularDistance)
        sin3 == sin(bearingR)
        cos3 == cos(bearingR)
        sin4 == Mul(sin1, cos2) + Mul(Mul(cos1, sin2), cos3)
        nextLatitude == asin(sin4)
        y == Mul(Mul(sin3, sin2), cos1)
        x == cos2 - Mul(sin1, sin4)
        nextLongitude == longitudeR + atan2(y, x)
    IN  <<degreesFromRadians(nextLatitude),
          NormalizedLongitude(degreesFromRadians(nextLongitude))>>

\* destinationGPSPoint calling destination with four arguments, the flag
\* taking its default
destinationGPSPointOfMeanRadius(latitude, longitude, dist, bearing, shouldCalculateEarthRadius) ==
    LET dest == destination(latitude, longitude, dist, bearing, FALSE)
    IN  gpsPointFromDegrees(dest[1], dest[2])

destinationGPSPoint(latitude, longitude, dist, bearing, shouldCalculateEarthRadius) ==
    LET dest == destination(latitude, longitude, dist, bearing, shouldCalculateEarthRadius)
    IN  gpsPointFromDegrees(dest[1], dest[2])

(***************************************************************************)
(* Track functions.  A generator works on t = [pts, tr]: pts is the vector *)
(* it was handed by reference, tr the calls of line and spiral made so     *)
(* far, each with the size of the vector when it was entered.              *)
(***************************************************************************)
Call(fn, at, r0, a0, r1, a1, n) ==
    [fn |-> fn, at |-> at, r0 |-> r0, a0 |-> a0, r1 |-> r1, a1 |-> a1, n |-> n]

\* the points of the loop of line run as do { ... } while (++i <= numberOfPoints):
\* with numberOfPoints = 0 the body runs once and divides by zero, and the
\* point it pushes holds no number
LinePointsAtLeastOnce(xOffset, yOffset, xLength, yLength, numberOfPoints) ==
    IF numberOfPoints = 0 THEN <<<<NaN, NaN>>>>
    ELSE [i \in 1 .. numberOfPoints |->
             LET cut == Div(D(i), D(numberOfPoints))
             IN  <<xOffset + Mul(cut, xLength), yOffset + Mul(cut, yLength)>>]

\* the points of the loop of line run as for (i = 1; i < numberOfPoints; ++i)
LinePointsShortOfEnd(xOffset, yOffset, xLength, yLength, numberOfPoints) ==
    [i \in 1 .. numberOfPoints - 1 |->
        LET cut == Div(D(i), D(numberOfPoints))
        IN  <<xOffset + Mul(cut, xLength), yOffset + Mul(cut, yLength)>>]

\* the points of the loop of line run as for (i = 0; i < numberOfPoints; ++i)
LinePointsFromPole(xOffset, yOffset, xLength, yLength, numberOfPoints) ==
    [i \in 1 .. numberOfPoints |->
        LET cut == Div(D(i - 1), D(numberOfPoints))
        IN  <<xOffset + Mul(cut, xLength), yOffset + Mul(cut, yLength)>>]

\* the points pushed by the loop for (i = 1; i <= numberOfPoints; ++i) of line
LinePoints(xOffset, yOffset, xLength, yLength, numberOfPoints) ==
    [i \in 1 .. numberOfPoints |->
        LET cut == Div(D(i), D(numberOfPoints))
        IN  <<xOffset + Mul(cut, xLength), yOffset + Mul(cut, yLength)>>]

\* line writing its first point over the pole instead of after it
LineOverPole(t, length, angle, numberOfPoints) ==
    [pts |-> SubSeq(t.pts, 1, Len(t.pts) - 1)
             \o LinePoints(t.pts[Len(t.pts)][1], t.pts[Len(t.pts)][2],
                           Mul(length, sin(angle)), Mul(length, cos(angle)), numberOfPoints),
     tr |-> Append(t.tr, Call("line", Len(t.pts), length, angle, length, angle,
                              numberOfPoints))]

LineOn(t, length, angle, numberOfPoints) ==
    LET xOffset == t.pts[Len(t.pts)][1]
        yOffset == t.pts[Len(t.pts)][2]
        xLength == Mul(length, sin(angle))
        yLength == Mul(length, cos(angle))
    IN  [pts |-> t.pts \o LinePoints(xOffset, yOffset, xLength, yLength, numberOfPoints),
         tr |-> Append(t.tr, Call("line", Len(t.pts), length, angle, length, angle,
                                  numberOfPoints))]

\* line, entered with the vector as the calls before it left it
line(t, length, angle, numberOfPoints) ==
    CHOOSE r \in {LineOn(s, length, angle, numberOfPoints) : s \in {t}} : TRUE

RECURSIVE RectangleLoop(_, _, _, _, _, _, _)
RectangleLoop(t, width, height, length, angle, numberOfPoints, i) ==
    IF i < 4
    THEN RectangleLoop(line(t, length, angle, numberOfPoints), width, height,
                       IF 0 = i % 2 THEN height ELSE width,
                       angle + Mul(half, pi), numberOfPoints, i + 1)
    ELSE t

\* rectangle with length initialised to height
rectangleHeightFirst(t, width, height, angle, numberOfPoints) ==
    RectangleLoop(t, width, height, height, angle, numberOfPoints, 0)

rectangle(t, width, height, angle, numberOfPoints) ==
    RectangleLoop(t, width, height, width, angle, numberOfPoints, 0)

\* square handing rectangle twice the length as its height
squareOfDoubleHeight(t, length, angle, numberOfPoints) ==
    rectangle(t, length, Mul(D(2), length), angle, numberOfPoints)

square(t, length, angle, numberOfPoints) ==
    rectangle(t, length, length, angle, numberOfPoints)

\* the points pushed by the loop for (i = 1; i <= numberOfPoints; ++i) of spiral
SpiralPoints(xOffset, yOffset, initialRadius, initialAngle, finishRadius, finishAngle, numberOfPoints) ==
    [i \in 1 .. numberOfPoints |->
        LET cut == Div(D(i), D(numberOfPoints))
            radius == initialRadius + Mul(cut, finishRadius - initialRadius)
            angle == initialAngle + Mul(cut, finishAngle - initialAngle)
        IN  <<xOffset + Mul(radius, sin(angle)), yOffset + Mul(radius, cos(angle))>>]

\* spiral taking the pole itself as its center
SpiralAroundPole(t, initialRadius, initialAngle, finishRadius, finishAngle, numberOfPoints) ==
    [pts |-> t.pts \o SpiralPoints(t.pts[Len(t.pts)][1], t.pts[Len(t.pts)][2],
                                   initialRadius, initialAngle,
                                   finishRadius, finishAngle, numberOfPoints),
     tr |-> Append(t.tr, Call("spiral", Len(t.pts), initialRadius, initialAngle,
                              finishRadius, finishAngle, numberOfPoints))]

SpiralOn(t, initialRadius, initialAngle, finishRadius, finishAngle, numberOfPoints) ==
    LET xOffset == t.pts[Len(t.pts)][1] - Mul(initialRadius, sin(initialAngle))
        yOffset == t.pts[Len(t.pts)][2] - Mul(initialRadius, cos(initialAngle))
    IN  [pts |-> t.pts \o SpiralPoints(xOffset, yOffset, initialRadius, initialAngle,
                                       finishRadius, finishAngle, numberOfPoints),
         tr |-> Append(t.tr, Call("spiral", Len(t.pts), initialRadius, initialAngle,
                                  finishRadius, finishAngle, numberOfPoints))]

\* spiral, entered with the vector as the calls before it left it
spiral(t, initialRadius, initialAngle, finishRadius, finishAngle, numberOfPoints) ==
    CHOOSE r \in {SpiralOn(s, initialRadius, initialAngle, finishRadius, finishAngle,
                           numberOfPoints) : s \in {t}} : TRUE

sector(t, radius, initialAngle, finishAngle, numberOfPoints) ==
    spiral(t, radius, initialAngle, radius, finishAngle, numberOfPoints)

\* circle sweeping pi instead of 2 pi
circleOfHalfTurn(t, radius, angle, numberOfPoints) ==
    spiral(t, radius, angle, radius, angle + pi, numberOfPoints)

circle(t, radius, angle, numberOfPoints) ==
    spiral(t, radius, angle, radius, angle + Mul(D(2), pi), numberOfPoints)

RECURSIVE SquiggleLoop(_, _, _, _, _, _, _, _, _, _)
SquiggleLoop(t, length, radius, angle, rotationAngle, nextAngle, initialRotationAngle, numberOfLines, numberOfPoints, i) ==
    IF i < numberOfLines
    THEN LET arc == sector(t, radius, angle + initialRotationAngle,
                           nextAngle + initialRotationAngle, numberOfPoints)
             straight == line(arc, length, nextAngle, numberOfPoints)
         IN  SquiggleLoop(straight, length, radius, nextAngle, rotationAngle,
                          IF 0 = i % 2 THEN nextAngle + rotationAngle
                                       ELSE nextAngle - rotationAngle,
                          Mul(initialRotationAngle, D(-1)),
                          numberOfLines, numberOfPoints, i + 1)
    ELSE t

\* squiggle with initialRotationAngle initialised to 0.5 * conn::pi
squiggleTurningForward(t, length, radius, angle, rotationAngle, numberOfLines, numberOfPoints) ==
    SquiggleLoop(line(t, length, angle, numberOfPoints), length, radius, angle,
                 rotationAngle, angle + rotationAngle, Mul(half, pi),
                 numberOfLines, numberOfPoints, 1)

\* squiggle with its loop started at i = 0
squiggleFromZero(t, length, radius, angle, rotationAngle, numberOfLines, numberOfPoints) ==
    SquiggleLoop(line(t, length, angle, numberOfPoints), length, radius, angle,
                 rotationAngle, angle + rotationAngle, Mul(-half, pi),
                 numberOfLines, numberOfPoints, 0)

squiggle(t, length, radius, angle, rotationAngle, numberOfLines, numberOfPoints) ==
    SquiggleLoop(line(t, length, angle, numberOfPoints), length, radius, angle,
                 rotationAngle, angle + rotationAngle, Mul(-half, pi),
                 numberOfLines, numberOfPoints, 1)

\* letterPi runs straight through seven calls, updating angle and rotationAngle
\* between them.  s holds the vector, angle and rotationAngle as the statements
\* so far left them; statement k is the k-th call together with the updates
\* that follow it.
RECURSIVE letterPiFrom(_, _, _, _, _, _)
letterPiFrom(s, statement, verticalLength, horizontalLength, radius, numberOfPoints) ==
    IF statement > 7 THEN s.t
    ELSE LET after ==
                 CASE statement = 1 ->
                      \* sector; angle += 2. * rotationAngle
                      [t |-> sector(s.t, radius, s.angle, s.angle + s.rotationAngle, numberOfPoints),
                       angle |-> s.angle + Mul(D(2), s.rotationAngle),
                       rotationAngle |-> s.rotationAngle]
                   [] statement = 2 ->
                      \* line(verticalLength); angle -= rotationAngle; rotationAngle *= 3.
                      [t |-> line(s.t, verticalLength, s.angle, numberOfPoints),
                       angle |-> s.angle - s.rotationAngle,
                       rotationAngle |-> Mul(s.rotationAngle, D(3))]
                   [] statement = 3 ->
                      \* sector
                      [t |-> sector(s.t, radius, s.angle, s.angle + s.rotationAngle, numberOfPoints),
                       angle |-> s.angle,
                       rotationAngle |-> s.rotationAngle]
                   [] statement = 4 ->
                      \* line(horizontalLength); angle += -rotationAngle / 3.
                      [t |-> line(s.t, horizontalLength, s.angle, numberOfPoints),
                       angle |-> s.angle + Div(-s.rotationAngle, D(3)),
                       rotationAngle |-> s.rotationAngle]
                   [] statement = 5 ->
                      \* sector
                      [t |-> sector(s.t, radius, s.angle, s.angle + s.rotationAngle, numberOfPoints),
                       angle |-> s.angle,
                       rotationAngle |-> s.rotationAngle]
                   [] statement = 6 ->
                      \* line(verticalLength); rotationAngle /= 3.; angle -= rotationAngle
                      [t |-> line(s.t, verticalLength, s.angle, numberOfPoints),
                       angle |-> s.angle - Div(s.rotationAngle, D(3)),
                       rotationAngle |-> Div(s.rotationAngle, D(3))]
                   [] OTHER ->
                      \* sector
                      [t |-> sector(s.t, radius, s.angle, s.angle + s.rotationAngle, numberOfPoints),
                       angle |-> s.angle,
                       rotationAngle |-> s.rotationAngle]
         IN  letterPiFrom(CHOOSE r \in {after} : TRUE, statement + 1,
                          verticalLength, horizontalLength, radius, numberOfPoints)

\* letterPi drawing its horizontal stroke where the vertical ones belong
letterPiLyingDown(t, verticalLength, horizontalLength, radius, angle, numberOfPoints) ==
    letterPiFrom([t |-> t, angle |-> angle + pi, rotationAngle |-> Mul(-half, pi)], 1,
                 horizontalLength, verticalLength, radius, numberOfPoints)

letterPi(t, verticalLength, horizontalLength, radius, angle, numberOfPoints) ==
    \* angle += conn::pi; double rotationAngle = -0.5 * conn::pi
    letterPiFrom([t |-> t, angle |-> angle + pi, rotationAngle |-> Mul(-half, pi)], 1,
                 verticalLength, horizontalLength, radius, numberOfPoints)

(***************************************************************************)
(* main.cc, after the track is made: the GPS position of every point of    *)
(* the track is printed.  main takes the distance of a point from the pole *)
(* in metres; here it is rounded to whole metres, so that the squares fit  *)
(* the integers of the model checker, and handed on in megametres.         *)
(***************************************************************************)
MainLines == 8
MainPoints == 16

\* a track coordinate in whole metres
Metres(v) == RoundDiv(v, Scale)

\* sqrt(std::pow(points[i][0], 2) + std::pow(points[i][1], 2)), in whole metres
MainDestination(x, y) == RoundedRoot(x * x + y * y, ISqrtIn(x * x + y * y, 0, 46340))

\* the line main prints for the point p of the track:
\* bearing = asin(points[i][0] / destination), and destinationGPSPoint from
\* latitude and longitude with the flag false
MainLine(latitude, longitude, x, y) ==
    printGPSPoint(destinationGPSPoint(latitude, longitude,
                                      RoundDiv(MainDestination(x, y), 1000),
                                      asin(Div(x, MainDestination(x, y))),
                                      FALSE)).wrote[1]

\* the lines main writes for the track pts: the initial GPS point, then one
\* line for each point after the first
MainOutput(pts, initialGPSPoint) ==
    printGPSPoint(initialGPSPoint).wrote
    \o [j \in 1 .. Len(pts) - 1 |->
           MainLine(degreesFromGPSCoordinate(initialGPSPoint[1]).val[1],
                    degreesFromGPSCoordinate(initialGPSPoint[2]).val[1],
                    Metres(pts[j + 1][1]), Metres(pts[j + 1][2]))]

(***************************************************************************)
(* Bounds and inputs of the track generators                               *)
(***************************************************************************)
\* numberOfPoints ranges over 0 .. MaxPoints, numberOfLines over 0 .. MaxLines
MaxPoints == 2
MaxLines == 3
\* a generator is called on a track of at most MaxPole points
MaxPole == 2

Lengths == {D(2), D(3)}
Radii == {D(1), D(1000)}
Angles == {300, Mul(half, pi)}
Sweeps == {300, Mul(half, pi)}
StartAngle == Div(D(3), D(10))
Rotations == {Mul(half, pi), -400}
Counts == 0 .. MaxPoints

NoCall == [op |-> "none", args |-> <<>>, before |-> 0]
NoResult == [fn |-> "none", args |-> <<>>, r |-> Done(<<>>), on |-> <<>>]

\* main.cc: the track is seeded with the pole (0, 0)
Init == /\ points = <<<<0, 0>>>>
        /\ last = NoCall
        /\ trace = <<>>
        /\ res = NoResult
        /\ out = <<>>

\* The caller hands its track to a generator.  A call that appended nothing
\* leaves the caller where it was: the run is not continued after it.
CanCall == /\ Len(points) <= MaxPole
           /\ last.op = "none" \/ Len(points) > last.before

\* the generator returned, leaving the vector and the calls made as in ts
Generated(op, args, ts) ==
    \E t \in ts :
    /\ points' = t.pts
    /\ trace' = t.tr
    /\ last' = [op |-> op, args |-> args, before |-> Len(points)]
    /\ UNCHANGED <<res, out>>

Entry == [pts |-> points, tr |-> <<>>]

Line(length, angle, n) ==
    /\ CanCall
    /\ Generated("line", <<length, angle, n>>, {line(Entry, length, angle, n)})

Rectangle(width, height, angle, n) ==
    /\ CanCall
    /\ Generated("rectangle", <<width, height, angle, n>>,
                 {rectangle(Entry, width, height, angle, n)})

Square(length, angle, n) ==
    /\ CanCall
    /\ Generated("square", <<length, angle, n>>, {square(Entry, length, angle, n)})

Spiral(initialRadius, initialAngle, finishRadius, finishAngle, n) ==
    /\ CanCall
    /\ Generated("spiral", <<initialRadius, initialAngle, finishRadius, finishAngle, n>>,
                 {spiral(Entry, initialRadius, initialAngle, finishRadius, finishAngle, n)})

Sector(radius, initialAngle, finishAngle, n) ==
    /\ CanCall
    /\ Generated("sector", <<radius, initialAngle, finishAngle, n>>,
                 {sector(Entry, radius, initialAngle, finishAngle, n)})

Circle(radius, angle, n) ==
    /\ CanCall
    /\ Generated("circle", <<radius, angle, n>>, {circle(Entry, radius, angle, n)})

Squiggle(length, radius, angle, rotationAngle, numberOfLines, n) ==
    /\ CanCall
    /\ Generated("squiggle", <<length, radius, angle, rotationAngle, numberOfLines, n>>,
                 {squiggle(Entry, length, radius, angle, rotationAngle, numberOfLines, n)})

LetterPi(verticalLength, horizontalLength, radius, angle, n) ==
    /\ CanCall
    /\ Generated("letterPi", <<verticalLength, horizontalLength, radius, angle, n>>,
                 {letterPi(Entry, verticalLength, horizontalLength, radius, angle, n)})

\* main.cc: conn::squiggle(points, 1000., 1000., 0.5 * conn::pi, conn::pi, 8, 16)
\* on the freshly seeded track, then the printing of its GPS points
Main ==
    /\ last.op = "none"
    /\ \E t \in {squiggle(Entry, D(1000), D(1000), Mul(half, pi), pi, MainLines, MainPoints)} :
          /\ points' = t.pts
          /\ trace' = t.tr
          /\ last' = [op |-> "main",
                      args |-> <<D(1000), D(1000), Mul(half, pi), pi, MainLines, MainPoints>>,
                      before |-> Len(points)]
          /\ out' = out \o MainOutput(t.pts, <<<<D(41), D(59), D(4)>>, <<D(2), D(49), D(16)>>>>)
          /\ UNCHANGED res

Next ==
    \/ \E length \in Lengths, angle \in Angles, n \in Counts : Line(length, angle, n)
    \/ \E width \in Lengths, height \in Lengths, angle \in Angles, n \in Counts :
          Rectangle(width, height, angle, n)
    \/ \E length \in Lengths, angle \in Angles, n \in Counts : Square(length, angle, n)
    \/ \E r0 \in Radii, r1 \in Radii, sweep \in Sweeps, n \in Counts :
          Spiral(r0, StartAngle, r1, StartAngle + sweep, n)
    \/ \E radius \in Radii, sweep \in Sweeps, n \in Counts :
          Sector(radius, StartAngle, StartAngle - sweep, n)
    \/ \E radius \in Radii, angle \in Angles, n \in Counts : Circle(radius, angle, n)
    \/ \E rotationAngle \in Rotations, k \in 0 .. MaxLines, n \in Counts :
          Squiggle(D(2), D(1), StartAngle, rotationAngle, k, n)
    \/ \E angle \in Angles, n \in Counts : LetterPi(D(3), D(2), D(1), angle, n)
    \/ Main

\* The track generators, called one after another on the track of main
Spec == Init /\ [][Next]_vars

(***************************************************************************)
(* Bounds and inputs of the library functions                              *)
(***************************************************************************)
\* a coordinate has 0 .. MaxComponents components, a point 0 .. MaxCoordinates
\* coordinates
MaxComponents == 4
MaxCoordinates == 3

\* the first k components of c, filled up with zeros beyond the third
Shaped(c, k) == [i \in 1 .. k |-> IF i <= 3 THEN c[i] ELSE D(0)]

Triples == {<<D(41), D(59), D(4)>>, <<D(2), D(49), D(16)>>, <<D(0), D(0), D(0)>>,
            <<D(-2), D(49), D(16)>>, <<D(10), D(59), D(60)>>, <<10500, 0, 0>>,
            <<D(0), D(30), D(0)>>}
Coordinates == {Shaped(c, k) : c \in Triples, k \in 0 .. MaxComponents}

PointCoordinates ==
    {Shaped(<<D(41), D(59), D(4)>>, k) : k \in 2 .. MaxComponents}
    \cup {<<D(-2), D(49), D(16)>>}
Points == UNION {[1 .. k -> PointCoordinates] : k \in 0 .. MaxCoordinates}

PairCoordinates == {<<D(41), D(59)>>, <<D(41), D(59), D(4)>>}
PairPoints ==
    UNION {[1 .. k -> PairCoordinates] : k \in 0 .. MaxCoordinates}
    \cup {<<<<D(2), D(49), D(16)>>, <<D(41), D(59), D(4)>>>>,
          <<<<D(-41), D(0), D(0)>>, <<D(180), D(0), D(0)>>>>}

Latitudes == {D(0), D(41), D(-41), D(90)}
Longitudes == {D(0), D(30), D(180), D(-180), D(-600)}
Distances == {D(0), D(1), D(10)}
Bearings == {D(0), D(45), D(90), D(270)}
Degrees == {D(0), D(41), 41984, 10500, -2821, D(180)}
Radians == {0, 733, -49, pi}

\* the library is called once; a caller may hand the degrees it got from
\* degreesFromGPSCoordinate back to gpsCoordinateFromDegrees
Idle == res.fn = "none"

\* fn returned or threw as r says, having written what r says
Applied(fn, args, r, on) ==
    /\ res' = [fn |-> fn, args |-> args, r |-> r, on |-> on]
    /\ out' = out \o r.wrote
    /\ UNCHANGED <<points, last, trace>>

FailIfNotAGPSCoordinate(coordinate) ==
    Idle /\ Applied("failIfNotAGPSCoordinate", <<coordinate>>,
                    failIfNotAGPSCoordinate(coordinate), <<>>)

FailIfNotAGPSPoint(point) ==
    Idle /\ Applied("failIfNotAGPSPoint", <<point>>, failIfNotAGPSPoint(point), <<>>)

RadiansFromDegrees(degrees) ==
    Idle /\ Applied("radiansFromDegrees", <<degrees>>,
                    Return(<<"arith">>, radiansFromDegrees(degrees)), <<>>)

DegreesFromRadians(radians) ==
    Idle /\ Applied("degreesFromRadians", <<radians>>,
                    Return(<<"arith">>, degreesFromRadians(radians)), <<>>)

DegreesFromGPSCoordinate(coordinate) ==
    Idle /\ Applied("degreesFromGPSCoordinate", <<coordinate>>,
                    degreesFromGPSCoordinate(coordinate), <<>>)

RadiansFromGPSCoordinate(coordinate) ==
    Idle /\ Applied("radiansFromGPSCoordinate", <<coordinate>>,
                    radiansFromGPSCoordinate(coordinate), <<>>)

DegreesFromGPSPoint(point) ==
    Idle /\ Applied("degreesFromGPSPoint", <<point>>, degreesFromGPSPoint(point), <<>>)

RadiansFromGPSPoint(point) ==
    Idle /\ Applied("radiansFromGPSPoint", <<point>>, radiansFromGPSPoint(point), <<>>)

GpsCoordinateFromDegrees(income) ==
    Idle /\ Applied("gpsCoordinateFromDegrees", <<income>>,
                    Return(<<"arith">>, gpsCoordinateFromDegrees(income)), <<>>)

\* gpsCoordinateFromDegrees(degreesFromGPSCoordinate(c)): the degrees just
\* returned for c are converted back
GpsCoordinateFromDegreesOfCoordinate ==
    /\ res.fn = "degreesFromGPSCoordinate"
    /\ ~res.r.threw
    /\ Applied("gpsCoordinateFromDegrees", <<res.r.val[1]>>,
               Return(<<"arith">>, gpsCoordinateFromDegrees(res.r.val[1])), res.args)

GpsCoordinateFromRadians(income) ==
    Idle /\ Applied("gpsCoordinateFromRadians", <<income>>,
                    Return(<<"arith">>, gpsCoordinateFromRadians(income)), <<>>)

GpsPointFromDegrees(latitude, longitude) ==
    Idle /\ Applied("gpsPointFromDegrees", <<latitude, longitude>>,
                    Return(<<"arith">>, gpsPointFromDegrees(latitude, longitude)), <<>>)

GpsPointFromRadians(latitude, longitude) ==
    Idle /\ Applied("gpsPointFromRadians", <<latitude, longitude>>,
                    Return(<<"arith">>, gpsPointFromRadians(latitude, longitude)), <<>>)

StringFromGPSCoordinate(coordinate) ==
    Idle /\ Applied("stringFromGPSCoordinate", <<coordinate>>,
                    stringFromGPSCoordinate(coordinate), <<>>)

StringFromGPSCoordinate2(coordinate, itIsLatitude) ==
    Idle /\ Applied("stringFromGPSCoordinate2", <<coordinate, itIsLatitude>>,
                    stringFromGPSCoordinate2(coordinate, itIsLatitude), <<>>)

StringFromGPSPoint(point) ==
    Idle /\ Applied("stringFromGPSPoint", <<point>>, stringFromGPSPoint(point), <<>>)

PrintGPSCoordinate(coordinate) ==
    Idle /\ Applied("printGPSCoordinate", <<coordinate>>,
                    printGPSCoordinate(coordinate), <<>>)

PrintGPSCoordinate2(coordinate, itIsLatitude) ==
    Idle /\ Applied("printGPSCoordinate2", <<coordinate, itIsLatitude>>,
                    printGPSCoordinate2(coordinate, itIsLatitude), <<>>)

PrintGPSPoint(point) ==
    Idle /\ Applied("printGPSPoint", <<point>>, printGPSPoint(point), <<>>)

CalculateEarthRadius(latitude) ==
    Idle /\ Applied("calculateEarthRadius", <<latitude>>,
                    Return(<<"arith">>, calculateEarthRadius(latitude)), <<>>)

CalculateEarthRadiusOfCoordinate(latitude) ==
    Idle /\ Applied("calculateEarthRadiusOfCoordinate", <<latitude>>,
                    calculateEarthRadiusOfCoordinate(latitude), <<>>)

CalculateEarthRadiusOfPoint(point) ==
    Idle /\ Applied("calculateEarthRadiusOfPoint", <<point>>,
                    calculateEarthRadiusOfPoint(point), <<>>)

Distance(latitude1, longitude1, latitude2, longitude2, shouldCalculateEarthRadius) ==
    Idle /\ Applied("distance",
                    <<latitude1, longitude1, latitude2, longitude2,
                      shouldCalculateEarthRadius>>,
                    Return(<<"arith">>,
                           distance(latitude1, longitude1, latitude2, longitude2,
                                    shouldCalculateEarthRadius)), <<>>)

DistanceOfPoints(point1, point2, shouldCalculateEarthRadius) ==
    Idle /\ Applied("distanceOfPoints", <<point1, point2, shouldCalculateEarthRadius>>,
                    distanceOfPoints(point1, point2, shouldCalculateEarthRadius), <<>>)

Destination(latitude, longitude, dist, bearing, shouldCalculateEarthRadius) ==
    Idle /\ Applied("destination",
                    <<latitude, longitude, dist, bearing, shouldCalculateEarthRadius>>,
                    Return(<<"arith">>,
                           destination(latitude, longitude, dist, bearing,
                                       shouldCalculateEarthRadius)), <<>>)

DestinationGPSPoint(latitude, longitude, dist, bearing, shouldCalculateEarthRadius) ==
    Idle /\ Applied("destinationGPSPoint",
                    <<latitude, longitude, dist, bearing, shouldCalculateEarthRadius>>,
                    Return(<<"arith">>,
                           destinationGPSPoint(latitude, longitude, dist, bearing,
                                               shouldCalculateEarthRadius)), <<>>)

NextLib ==
    \/ \E coordinate \in Coordinates : FailIfNotAGPSCoordinate(coordinate)
    \/ \E point \in Points : FailIfNotAGPSPoint(point)
    \/ \E degrees \in Degrees : RadiansFromDegrees(degrees)
    \/ \E radians \in Radians : DegreesFromRadians(radians)
    \/ \E coordinate \in Coordinates : DegreesFromGPSCoordinate(coordinate)
    \/ \E coordinate \in Coordinates : RadiansFromGPSCoordinate(coordinate)
    \/ \E point \in Points : DegreesFromGPSPoint(point)
    \/ \E point \in Points : RadiansFromGPSPoint(point)
    \/ \E income \in Degrees : GpsCoordinateFromDegrees(income)
    \/ GpsCoordinateFromDegreesOfCoordinate
    \/ \E income \in Radians : GpsCoordinateFromRadians(income)
    \/ \E latitude \in Degrees, longitude \in Degrees :
          GpsPointFromDegrees(latitude, longitude)
    \/ \E latitude \in Radians, longitude \in Radians :
          GpsPointFromRadians(latitude, longitude)
    \/ \E coordinate \in Coordinates : StringFromGPSCoordinate(coordinate)
    \/ \E coordinate \in Coordinates, itIsLatitude \in BOOLEAN :
          StringFromGPSCoordinate2(coordinate, itIsLatitude)
    \/ \E point \in Points : StringFromGPSPoint(point)
    \/ \E coordinate \in Coordinates : PrintGPSCoordinate(coordinate)
    \/ \E coordinate \in Coordinates, itIsLatitude \in BOOLEAN :
          PrintGPSCoordinate2(coordinate, itIsLatitude)
    \/ \E point \in Points : PrintGPSPoint(point)
    \/ \E latitude \in Latitudes : CalculateEarthRadius(latitude)
    \/ \E latitude \in Coordinates : CalculateEarthRadiusOfCoordinate(latitude)
    \/ \E point \in Points : CalculateEarthRadiusOfPoint(point)
    \/ \E latitude1 \in Latitudes, longitude1 \in Longitudes,
          latitude2 \in Latitudes, longitude2 \in Longitudes, flag \in BOOLEAN :
          Distance(latitude1, longitude1, latitude2, longitude2, flag)
    \/ \E point1 \in PairPoints, point2 \in PairPoints, flag \in BOOLEAN :
          DistanceOfPoints(point1, point2, flag)
    \/ \E latitude \in Latitudes, longitude \in Longitudes, dist \in Distances,
          bearing \in Bearings, flag \in BOOLEAN :
          Destination(latitude, longitude, dist, bearing, flag)
    \/ \E latitude \in Latitudes, longitude \in Longitudes, dist \in Distances,
          bearing \in Bearings, flag \in BOOLEAN :
          DestinationGPSPoint(latitude, longitude, dist, bearing, flag)

\* The library functions, each applied to inputs drawn from the sets above
SpecLib == Init /\ [][NextLib]_vars

(***************************************************************************)
(* Properties                                                              *)
(***************************************************************************)
\* two doubles agree within Tolerance / Scale, relative to a length of size
Tolerance == 5
Near(a, b, size) == Abs(a - b) <= Tolerance * (1 + Abs(size) \div Scale)
PointNear(p, q, size) == Near(p[1], q[1], size) /\ Near(p[2], q[2], size)

\* operator == of double
Equal(a, b) == a # NaN /\ b # NaN /\ a = b

IsGPSCoordinate(coordinate) == Len(coordinate) = 3
IsGPSPoint(point) ==
    Len(point) = 2 /\ IsGPSCoordinate(point[1]) /\ IsGPSCoordinate(point[2])

\* C1: every track generator only appends: a call leaves each point that was
\* in the track where it was, with the values it had, and the track never gets
\* shorter, whatever calls came before.
C1_GeneratorsOnlyAppend ==
    [][/\ Len(points') >= Len(points)
       /\ \A i \in 1 .. Len(points) : points'[i] = points[i]]_vars

\* letterPi has appended to a track that an earlier call had already extended
C1_AppendedToExtendedTrack ==
    /\ last.op = "letterPi"
    /\ last.before = 2
    /\ Len(points) = last.before + 7 * last.args[5]
    /\ last.args[5] >= 1

\* C2: failIfNotAGPSCoordinate throws exactly when the coordinate does not
\* have 3 components; failIfNotAGPSPoint throws exactly when the point does
\* not have 2 coordinates or one of them does not have 3 components, and it
\* reads the point's size first: with a wrong size no coordinate is accessed.
C2_ShapeValidationExact ==
    /\ res.fn = "failIfNotAGPSCoordinate" =>
          /\ res.r.threw <=> ~IsGPSCoordinate(res.args[1])
          /\ res.r.threw => res.r.exc = "GPS coordinate should have 3 values."
    /\ res.fn = "failIfNotAGPSPoint" =>
          /\ res.r.threw <=> ~IsGPSPoint(res.args[1])
          /\ res.r.ev[1] = "point.size"
          /\ Len(res.args[1]) # 2 =>
                /\ res.r.ev = <<"point.size">>
                /\ res.r.exc = "GPS point should have 2 coordinates."
          /\ (Len(res.args[1]) = 2 /\ res.r.threw) =>
                res.r.exc = "GPS coordinate should have 3 values."

\* a point of two coordinates was refused for its second coordinate, which
\* has one component too many, after its size and its first coordinate passed
C2_SecondCoordinateRefused ==
    /\ res.fn = "failIfNotAGPSPoint"
    /\ Len(res.args[1]) = 2
    /\ Len(res.args[1][1]) = 3
    /\ Len(res.args[1][2]) = 4
    /\ res.r.threw
    /\ res.r.ev = <<"point.size", "point[0]", "coordinate.size", "point[1]",
                    "coordinate.size">>

CoordinateFunctions ==
    {"degreesFromGPSCoordinate", "radiansFromGPSCoordinate",
     "calculateEarthRadiusOfCoordinate", "stringFromGPSCoordinate",
     "stringFromGPSCoordinate2", "printGPSCoordinate", "printGPSCoordinate2"}
PointFunctions ==
    {"degreesFromGPSPoint", "radiansFromGPSPoint", "calculateEarthRadiusOfPoint",
     "stringFromGPSPoint", "printGPSPoint"}

\* the call recorded in res was handed an argument of invalid shape
InvalidShapeGiven ==
    \/ res.fn \in CoordinateFunctions /\ ~IsGPSCoordinate(res.args[1])
    \/ res.fn \in PointFunctions /\ ~IsGPSPoint(res.args[1])
    \/ res.fn = "distanceOfPoints"
       /\ (~IsGPSPoint(res.args[1]) \/ ~IsGPSPoint(res.args[2]))

\* C3: a function taking a GPS coordinate or a GPS point that is handed an
\* argument of invalid shape throws, and it does so before any arithmetic:
\* it returns no value and writes nothing to stdout.  For distance on two
\* points either point being invalid is enough.
C3_InvalidShapeFailsWholeCall ==
    InvalidShapeGiven =>
        /\ res.r.threw
        /\ res.r.val = <<>>
        /\ res.r.wrote = <<>>
        /\ out = <<>>
        /\ \A i \in 1 .. Len(res.r.ev) : res.r.ev[i] \notin {"arith", "write"}

\* distance on two points threw for its second point, the first being valid
C3_SecondPointRefused ==
    /\ res.fn = "distanceOfPoints"
    /\ IsGPSPoint(res.args[1])
    /\ ~IsGPSPoint(res.args[2])
    /\ res.r.threw
    /\ out = <<>>

C5_RoundTripIsFloor ==
    (res.fn = "gpsCoordinateFromDegrees" /\ res.on # <<>>) =>
        res.r.val[1] = <<floor(res.on[1][1]), floor(res.on[1][2]), floor(res.on[1][3])>>

\* C6: squiggle with k >= 1 lines of n >= 1 points appends k*n + (k-1)*n
\* points, by the calls line, arc, line, ..., line, each of n points and each
\* entered where the one before left the track; the squiggle of main, k = 8
\* and n = 16 on the one-point track, leaves 1 + 240 points.
C6_SquigglePointCount ==
    /\ (last.op \in {"squiggle", "main"} /\ last.args[5] >= 1 /\ last.args[6] >= 1) =>
          /\ Len(points) = last.before + last.args[5] * last.args[6]
                                       + (last.args[5] - 1) * last.args[6]
          /\ Len(trace) = 2 * last.args[5] - 1
          /\ \A j \in 1 .. Len(trace) :
                /\ trace[j].fn = IF j % 2 = 1 THEN "line" ELSE "spiral"
                /\ trace[j].n = last.args[6]
                /\ trace[j].at = last.before + (j - 1) * last.args[6]
                /\ trace[j].r0 = trace[j].r1
    /\ last.op = "main" => last.before = 1 /\ Len(points) = 1 + 240

\* main has made its squiggle of 8 lines of 16 points
C6_MainSquiggleMade ==
    /\ last.op = "main"
    /\ last.args[5] = MainLines
    /\ last.args[6] = MainPoints
    /\ Len(points) = 241

\* the corner k of the figure last made of sides of n points, corner 0 being
\* the pole, and its side k, from corner k - 1 to corner k
Corner(k, n) == points[last.before + k * n]
Side(k, n) == <<Corner(k, n)[1] - Corner(k - 1, n)[1], Corner(k, n)[2] - Corner(k - 1, n)[2]>>
Dot(v, w) == Mul(v[1], w[1]) + Mul(v[2], w[2])
\* the heading of side k of a figure started at angle
Heading(angle, k) == angle + (k - 1) * radiansFromDegrees(D(90))

\* C7: square appends 4 * n points by four lines of n points, each of length
\* side; side k heads angle + (k - 1) * 90 degrees, and two consecutive sides
\* are orthogonal.
C7_SquareSides ==
    last.op = "square" =>
        /\ Len(points) = last.before + 4 * last.args[3]
        /\ Len(trace) = 4
        /\ \A k \in 1 .. 4 :
              /\ trace[k].fn = "line"
              /\ trace[k].n = last.args[3]
              /\ trace[k].at = last.before + (k - 1) * last.args[3]
              /\ trace[k].r0 = last.args[1]
              /\ Near(trace[k].a0, Heading(last.args[2], k), last.args[2])
        /\ last.args[3] >= 1 =>
              /\ \A k \in 1 .. 4 :
                    /\ Near(Side(k, last.args[3])[1],
                            Mul(last.args[1], sin(Heading(last.args[2], k))), last.args[1])
                    /\ Near(Side(k, last.args[3])[2],
                            Mul(last.args[1], cos(Heading(last.args[2], k))), last.args[1])
              /\ \A k \in 1 .. 3 :
                    Near(Dot(Side(k, last.args[3]), Side(k + 1, last.args[3])), 0,
                         Mul(last.args[1], last.args[1]))

\* square has made four sides of several points each at a slanted heading
C7_SquareMade ==
    /\ last.op = "square"
    /\ last.args[2] = StartAngle
    /\ last.args[3] = MaxPoints
    /\ Len(points) = last.before + 4 * MaxPoints
    /\ Side(1, MaxPoints) # Side(2, MaxPoints)

\* C8: rectangle calls line four times, with the lengths width, height, width,
\* height and the heading turned by +90 degrees after each side; the last
\* point it appends is the pole it started from, within tolerance.
C8_RectangleClosed ==
    last.op = "rectangle" =>
        /\ Len(trace) = 4
        /\ \A k \in 1 .. 4 :
              /\ trace[k].fn = "line"
              /\ trace[k].n = last.args[4]
              /\ trace[k].r0 = IF k % 2 = 1 THEN last.args[1] ELSE last.args[2]
              /\ Near(trace[k].a0, Heading(last.args[3], k), last.args[3])
        /\ PointNear(points[Len(points)], points[last.before],
                     last.args[1] + last.args[2])

\* rectangle has made a rectangle of unequal sides and come back to the pole
C8_UnequalRectangleMade ==
    /\ last.op = "rectangle"
    /\ last.args[1] # last.args[2]
    /\ last.args[4] >= 1
    /\ Len(points) = last.before + 4 * last.args[4]
    /\ ~PointNear(Corner(2, last.args[4]), points[last.before], last.args[1] + last.args[2])
    /\ PointNear(points[Len(points)], points[last.before], last.args[1] + last.args[2])

\* C9: circle with n >= 1 appends n points, and the last of them is the pole,
\* the last point of the track before the call, within tolerance.
C9_CircleReturnsToPole ==
    (last.op = "circle" /\ last.args[3] >= 1) =>
        /\ Len(points) = last.before + last.args[3]
        /\ PointNear(points[Len(points)], points[last.before], last.args[1])

\* circle has gone round: its first point is away from the pole, its last on it
C9_CircleMade ==
    /\ last.op = "circle"
    /\ last.args[1] = D(1000)
    /\ last.args[3] >= 2
    /\ Len(points) = last.before + last.args[3]
    /\ ~PointNear(points[last.before + 1], points[last.before], last.args[1])
    /\ PointNear(points[Len(points)], points[last.before], last.args[1])

PairDegrees ==
    <<DegreesOf(res.args[1][1]), DegreesOf(res.args[1][2]),
      DegreesOf(res.args[2][1]), DegreesOf(res.args[2][2])>>

\* C11: distance on two GPS points returns what distance on the four converted
\* coordinates returns with the same flag: the mean Earth radius when the flag
\* is false, the radius calculated at the midpoint latitude when it is true.
C11_PointDistanceFollowsFlag ==
    (res.fn = "distanceOfPoints" /\ ~res.r.threw) =>
        res.r.val[1] = distance(PairDegrees[1], PairDegrees[2], PairDegrees[3],
                                PairDegrees[4], res.args[3])

\* C12: gpsPointFromRadians converts its two arguments from radians: each
\* member of the point it returns is gpsCoordinateFromRadians of the argument,
\* which is gpsPointFromDegrees of the two arguments converted to degrees.
C12_PointFromRadiansConverts ==
    res.fn = "gpsPointFromRadians" =>
        /\ res.r.val[1] = gpsPointFromDegrees(degreesFromRadians(res.args[1]),
                                              degreesFromRadians(res.args[2]))
        /\ res.r.val[1][1] = gpsCoordinateFromRadians(res.args[1])
        /\ res.r.val[1][2] = gpsCoordinateFromRadians(res.args[2])

\* the decimal digits of the number Pi, 3.1415926535897932384626433
MathPiDigits == <<3, 1, 4, 1, 5, 9, 2, 6, 5, 3, 5, 8, 9, 7, 9, 3, 2, 3, 8, 4, 6, 2, 6, 4, 3, 3>>

\* C13: the constant conn::pi that radiansFromDegrees and degreesFromRadians
\* multiply and divide by is the number Pi up to 25 decimal places: the
\* literal agrees with Pi at each of its 25 places.
C13_PiCorrectTo25Places ==
    res.fn \in {"radiansFromDegrees", "degreesFromRadians"} =>
        /\ Len(piDigits) = 1 + 25
        /\ \A place \in 0 .. 25 : piDigits[1 + place] = MathPiDigits[1 + place]

\* the hemisphere letter of a coordinate whose degrees component is degrees
HemisphereLetter(degrees, itIsLatitude) ==
    IF itIsLatitude THEN (IF degrees < 0 THEN " S" ELSE " N")
                    ELSE (IF degrees < 0 THEN " W" ELSE " E")

\* C14: stringFromGPSCoordinate with the flag itIsLatitude appends S (latitude)
\* or W (longitude) exactly when the degrees component is negative, and N or E
\* otherwise, the degrees component 0 included.
C14_HemisphereBySign ==
    (res.fn = "stringFromGPSCoordinate2" /\ ~res.r.threw) =>
        res.r.val[1] = stringFromGPSCoordinate(res.args[1]).val[1]
                           \o HemisphereLetter(res.args[1][1], res.args[2])

\* the point at the fraction i / n of the way from pole along the vector of
\* the given length and heading
Along(pole, length, angle, i, n) ==
    <<pole[1] + RoundDiv(i * Mul(length, sin(angle)), n),
      pole[2] + RoundDiv(i * Mul(length, cos(angle)), n)>>

\* C15: line with n >= 1 appends exactly n points by one loop; the i-th is
\* pole + (i / n) * length * (sin angle, cos angle), pole being the last point
\* the track had when line was entered; the pole is not appended again and the
\* n-th point is the end point pole + length * (sin angle, cos angle).
C15_LineInterpolates ==
    (last.op = "line" /\ last.args[3] >= 1) =>
        /\ Len(points) = last.before + last.args[3]
        /\ trace = <<Call("line", last.before, last.args[1], last.args[2],
                          last.args[1], last.args[2], last.args[3])>>
        /\ \A i \in 1 .. last.args[3] :
              PointNear(points[last.before + i],
                        Along(points[last.before], last.args[1], last.args[2], i, last.args[3]),
                        last.args[1])
        /\ points[Len(points)] =
              Along(points[last.before], last.args[1], last.args[2], 1, 1)
        /\ ~PointNear(points[last.before + 1], points[last.before], last.args[1])

\* line has appended several points to a track an earlier call had extended
C15_LineMade ==
    /\ last.op = "line"
    /\ last.before = 2
    /\ last.args[3] = MaxPoints
    /\ Len(points) = last.before + MaxPoints
    /\ points[last.before + 1] # points[Len(points)]
    /\ points[last.before] # <<0, 0>>

\* the arguments of the spiral last called: sector hands its radius twice
SpiralArgs ==
    IF last.op = "sector"
    THEN <<last.args[1], last.args[2], last.args[1], last.args[3], last.args[4]>>
    ELSE last.args

\* the point at radius r and angle a around center
Around(center, r, a) == <<center[1] + Mul(r, sin(a)), center[2] + Mul(r, cos(a))>>

\* the center of a spiral started at pole with radius r0 and angle a0
Center(pole, r0, a0) == <<pole[1] - Mul(r0, sin(a0)), pole[2] - Mul(r0, cos(a0))>>

\* the value at the fraction i / n of the way from v0 to v1
Interpolated(v0, v1, i, n) == v0 + RoundDiv(i * (v1 - v0), n)

\* C16: spiral with n >= 1 takes its center once, from the pole the track
\* ended with when it was entered, as pole - r0 * (sin a0, cos a0); it appends
\* exactly n points, the i-th at center + r(i) * (sin a(i), cos a(i)) with r
\* and a interpolated at i / n, the last at center + r1 * (sin a1, cos a1);
\* sector is the same with r1 = r0.
C16_SpiralAroundFixedCenter ==
    (last.op \in {"spiral", "sector"} /\ SpiralArgs[5] >= 1) =>
        /\ Len(points) = last.before + SpiralArgs[5]
        /\ trace = <<Call("spiral", last.before, SpiralArgs[1], SpiralArgs[2],
                          SpiralArgs[3], SpiralArgs[4], SpiralArgs[5])>>
        /\ \A i \in 1 .. SpiralArgs[5] :
              PointNear(points[last.before + i],
                        Around(Center(points[last.before], SpiralArgs[1], SpiralArgs[2]),
                               Interpolated(SpiralArgs[1], SpiralArgs[3], i, SpiralArgs[5]),
                               Interpolated(SpiralArgs[2], SpiralArgs[4], i, SpiralArgs[5])),
                        SpiralArgs[1] + SpiralArgs[3])
        /\ points[Len(points)] =
              Around(Center(points[last.before], SpiralArgs[1], SpiralArgs[2]),
                     SpiralArgs[3], SpiralArgs[4])

\* spiral has wound outwards by several points from a track an earlier call
\* had extended
C16_SpiralMade ==
    /\ last.op = "spiral"
    /\ last.before = 2
    /\ last.args[1] = D(1)
    /\ last.args[3] = D(1000)
    /\ last.args[5] = MaxPoints
    /\ Len(points) = last.before + MaxPoints
    /\ points[last.before + 1] # points[Len(points)]

\* the heading of the j-th straight line of the squiggle last made, and the
\* quarter turn added to the headings by the arc that follows it
LineHeading(j) == IF j % 2 = 1 THEN last.args[3] ELSE last.args[3] + last.args[4]
ArcBias(j) == IF j % 2 = 1 THEN -Mul(half, pi) ELSE Mul(half, pi)

\* C17: in squiggle the j-th straight line (j = 1..k) heads angle for odd j
\* and angle + rotationAngle for even j; the arc between line j and line
\* j + 1 sweeps from the heading of line j to the heading of line j + 1, both
\* with the same bias added, which is -pi/2 for the first arc and changes
\* sign with every arc.
C17_SquiggleHeadingsAlternate ==
    (last.op \in {"squiggle", "main"} /\ last.args[5] >= 1) =>
        /\ Len(trace) = 2 * last.args[5] - 1
        /\ \A j \in 1 .. last.args[5] :
              /\ trace[2 * j - 1].fn = "line"
              /\ trace[2 * j - 1].r0 = last.args[1]
              /\ trace[2 * j - 1].a0 = LineHeading(j)
        /\ \A j \in 1 .. last.args[5] - 1 :
              /\ trace[2 * j].fn = "spiral"
              /\ trace[2 * j].r0 = last.args[2]
              /\ trace[2 * j].r1 = last.args[2]
              /\ trace[2 * j].a0 = LineHeading(j) + ArcBias(j)
              /\ trace[2 * j].a1 = LineHeading(j + 1) + ArcBias(j)

\* squiggle has made three lines and the two arcs between them, turning by
\* an angle other than a quarter turn
C17_SquiggleTurnedTwice ==
    /\ last.op = "squiggle"
    /\ last.args[4] = -400
    /\ last.args[5] = 3
    /\ last.args[6] >= 1
    /\ Len(trace) = 5
    /\ trace[3].a0 # trace[1].a0
    /\ trace[5].a0 = trace[1].a0
    /\ trace[4].a0 - trace[3].a0 = trace[1].a0 - trace[2].a0

\* the length handed to the j-th call of letterPi: the radius for the four
\* sectors, the vertical, horizontal and vertical lengths for the three lines
LetterPiLength(j) ==
    IF j % 2 = 1 THEN last.args[3]
    ELSE IF j = 4 THEN last.args[2] ELSE last.args[1]

\* C18: letterPi makes exactly seven calls, sector, line(verticalLength),
\* sector, line(horizontalLength), sector, line(verticalLength), sector, each
\* of n points and each entered at the last point the one before appended, so
\* it appends exactly 7 * n points.
C18_LetterPiComposition ==
    last.op = "letterPi" =>
        /\ Len(trace) = 7
        /\ \A j \in 1 .. 7 :
              /\ trace[j].fn = IF j % 2 = 1 THEN "spiral" ELSE "line"
              /\ trace[j].r0 = LetterPiLength(j)
              /\ trace[j].r1 = LetterPiLength(j)
              /\ trace[j].n = last.args[5]
              /\ trace[j].at = last.before + (j - 1) * last.args[5]
        /\ Len(points) = last.before + 7 * last.args[5]

\* letterPi has made its seven figures of several points each, the strokes
\* of different lengths
C18_LetterPiMade ==
    /\ last.op = "letterPi"
    /\ last.args[5] = MaxPoints
    /\ last.args[1] # last.args[2]
    /\ Len(trace) = 7
    /\ Len(points) = last.before + 7 * MaxPoints
    /\ points[last.before + 7 * MaxPoints] # points[last.before + 6 * MaxPoints]

\* the radius of the sphere for a journey that starts at the latitude given,
\* in degrees
RadiusAt(latitude, shouldCalculateEarthRadius) ==
    IF shouldCalculateEarthRadius THEN calculateEarthRadius(latitude) ELSE earthRadius

\* the angle in degrees that the distance of the call recorded in res spans
\* on the sphere of its radius
SpannedDegrees ==
    degreesFromRadians(Div(res.args[3], RadiusAt(res.args[1], res.args[5])))

Counted(call) ==
    /\ call.op # "none"
    /\ call.op \in {"squiggle", "main"} => call.args[5] >= 1

\* the number of points the call appends, n being its last argument
PointCount(call) ==
    LET n == call.args[Len(call.args)]
    IN  CASE call.op \in {"line", "spiral", "sector", "circle"} -> n
          [] call.op \in {"rectangle", "square"} -> 4 * n
          [] call.op \in {"squiggle", "main"} -> (2 * call.args[5] - 1) * n
          [] call.op = "letterPi" -> 7 * n

\* C20: the track, seeded with one point, is never empty, and every generator
\* call makes it longer by its point count: n for line, spiral, sector and
\* circle, 4 * n for rectangle and square, (2 * k - 1) * n for squiggle with
\* k >= 1, 7 * n for letterPi; so after any sequence of calls its length is 1
\* plus the sum of their point counts.
C20_TrackLengthIsSum ==
    /\ [](Len(points) >= 1)
    /\ [][Counted(last') => Len(points') = Len(points) + PointCount(last')]_vars

\* a rectangle of several points a side was appended to a track that an
\* earlier call had extended by one point
C20_SecondCallCounted ==
    /\ last.op = "rectangle"
    /\ last.before = 2
    /\ last.args[4] = MaxPoints
    /\ Len(points) = 1 + 1 + 4 * MaxPoints

\* the numberOfPoints of a generator call, its last argument
PointsPerFigure(call) == call.args[Len(call.args)]

\* C21: a generator called with numberOfPoints = 0 returns and leaves the
\* track, which is not empty, exactly as it was: each loop of line and spiral
\* it enters runs zero times, so no point is pushed and no cut is divided.
\* squiggle with numberOfLines = 0 and n >= 1 makes its first line and nothing
\* else, n points; with numberOfLines = 1 it makes that line, n points, and
\* no arc.
C21_NoPointsAndFewLines ==
    [][/\ (last'.op # "none" /\ PointsPerFigure(last') = 0) =>
             /\ points' = points
             /\ Len(points') >= 1
             /\ Len(trace') >= 1
             /\ \A j \in 1 .. Len(trace') : trace'[j].n = 0 /\ trace'[j].at = Len(points)
       /\ (last'.op = "squiggle" /\ last'.args[5] \in {0, 1}) =>
             /\ Len(points') = Len(points) + last'.args[6]
             /\ SubSeq(points', 1, Len(points)) = points
             /\ trace' = <<Call("line", Len(points), last'.args[1], last'.args[3],
                                 last'.args[1], last'.args[3], last'.args[6])>>]_vars

\* squiggle was asked for several lines of no points on a track an earlier
\* call had extended: it made all its calls and the track is as it was
C21_SquiggleOfNoPoints ==
    /\ last.op = "squiggle"
    /\ last.args[5] = MaxLines
    /\ last.args[6] = 0
    /\ last.before = 2
    /\ Len(points) = 2
    /\ Len(trace) = 2 * MaxLines - 1
====
